---------------------------- MODULE Spec2Model ----------------------------
(***************************************************************************)
(* speedwatch-rs: the fixed-interval scheduler (execute_at_interval), one  *)
(* measurement-and-publish cycle (collect_and_push) and main, as one       *)
(* single-threaded state machine.  Strings that the code transforms        *)
(* (credentials, header values, host names) are sequences of byte or code  *)
(* point values; opaque collaborators (measurement, wire encoder, HTTP      *)
(* transport, clocks) are nondeterministic choices over small sets.        *)
(***************************************************************************)
EXTENDS Integers, Sequences, FiniteSets, TLC

(***************************************************************************)
(* Bounds of the model.                                                    *)
(***************************************************************************)
\* number of cycle invocations explored
MaxCycles == 2
\* number of clock ticks explored
MaxTicks == 3
\* seconds of monotonic time that pass in one tick
TickSecs == 30
\* units of the system clock in one millisecond; as_millis() truncates
WallUnitsPerMilli == 2

(***************************************************************************)
(* Program constants.                                                      *)
(***************************************************************************)
\* interval_minutes * 60
SecsPerMinute == 60
\* units of the system clock in one second
WallUnitsPerSec == 1000 * WallUnitsPerMilli
\* the number of values of the interval's unsigned integer type (u64),
\* scaled down to 30 bits so that the products stay within the checker's
\* integers
U64Modulus == 2^30

\* ASCII helpers
Colon == 58
PadChar == 61
\* "Basic "
BasicPrefix == <<66, 97, 115, 105, 99, 32>>
\* U+FFFD, what to_string_lossy puts for an invalid byte
ReplacementChar == 65533

\* LABEL_NAME of prometheus_remote_write
LABEL_NAME == "__name__"
\* CARGO_PKG_NAME "/" CARGO_PKG_VERSION
USER_AGENT == "speedwatch-rs/0.1.0"

(***************************************************************************)
(* Input sets (Args::parse and the environment).                           *)
(***************************************************************************)
\* the least number of minutes whose seconds do not fit the integer type
OverflowingMinutes == U64Modulus \div SecsPerMinute + 1
\* --interval: no sleep, one minute, and a number of minutes too large
Intervals == {0, 1, OverflowingMinutes}
\* remote_write_url as given on the command line
Urls == {"HTTP://LocalHost:9090/api/v1/write", "not a url"}
\* "u", "a\n"
Usernames == {<<117>>, <<97, 10>>}
\* "p", a non-ASCII byte, "w"
Passwords == {<<112, 200, 119>>}
\* what hostname::get() may return: "h" followed by an invalid byte
Hostnames == {<<104, 255>>}
DownloadSpeeds == {0, 50}
Latencies == {20}
Statuses == {200, 500}
\* the system clock is the monotonic clock plus an offset that whoever sets
\* the clock chooses: two offsets after the epoch (an odd number of half
\* milliseconds) and one that puts the clock before the epoch
WallInit == 40001
WallOffsets == {WallInit, 20001, -400001}

Args == [interval : Intervals, remote_write_url : Urls,
         username_remote_write : Usernames, password_remote_write : Passwords]

(***************************************************************************)
(* Pure functions.                                                         *)
(***************************************************************************)
\* url::Url::parse followed by the encoder's Uri: the normalised target, or
\* "" when the string is no absolute URL.
ParseUrl(s) ==
    CASE s = "http://localhost:9090/api/v1/write" -> "http://localhost:9090/api/v1/write"
      [] s = "HTTP://LocalHost:9090/api/v1/write" -> "http://localhost:9090/api/v1/write"
      [] OTHER -> ""

\* The base64 standard alphabet: index 0..63 to ASCII.
B64Char(i) ==
    IF i < 26 THEN 65 + i
    ELSE IF i < 52 THEN 97 + (i - 26)
    ELSE IF i < 62 THEN 48 + (i - 52)
    ELSE IF i = 62 THEN 43 ELSE 47

RECURSIVE STANDARD_encode(_)
\* base64::engine::general_purpose::STANDARD.encode on a byte sequence
STANDARD_encode(bytes) ==
    IF Len(bytes) = 0 THEN <<>>
    ELSE LET n  == Len(bytes)
             b0 == bytes[1]
             b1 == IF n >= 2 THEN bytes[2] ELSE 0
             b2 == IF n >= 3 THEN bytes[3] ELSE 0
             c0 == b0 \div 4
             c1 == (b0 % 4) * 16 + (b1 \div 16)
             c2 == (b1 % 16) * 4 + (b2 \div 64)
             c3 == b2 % 64
             rest == IF n > 3 THEN SubSeq(bytes, 4, n) ELSE <<>>
         IN  << B64Char(c0), B64Char(c1),
                IF n >= 2 THEN B64Char(c2) ELSE PadChar,
                IF n >= 3 THEN B64Char(c3) ELSE PadChar >>
             \o STANDARD_encode(rest)

\* format!("{}:{}", username, password)
FormatCredentials(u, p) == u \o <<Colon>> \o p

\* format!("Basic {}", credentials)
FormatBasic(credentials) == BasicPrefix \o credentials

\* HeaderValue::from_str accepts visible ASCII, space and tab only
HeaderValueOk(v) == \A i \in DOMAIN v : (v[i] >= 32 /\ v[i] < 127) \/ v[i] = 9

\* OsStr::to_string_lossy on the modelled host names
ToStringLossy(s) == [i \in DOMAIN s |-> IF s[i] >= 128 THEN ReplacementChar ELSE s[i]]

\* Duration::as_millis of a duration in wall units
AsMillis(d) == d \div WallUnitsPerMilli

\* interval_minutes * 60 does not fit the integer type
Overflows(interval_minutes) == interval_minutes * SecsPerMinute >= U64Modulus

\* a scheduler that takes an interval of no minutes for one minute
IntervalOfAtLeastOne(interval_minutes) ==
    IF interval_minutes = 0 THEN SecsPerMinute
    ELSE (interval_minutes * SecsPerMinute) % U64Modulus

\* Duration::from_secs(interval_minutes * 60), in seconds; the product
\* wraps where overflow checks are off (release builds)
IntervalOf(interval_minutes) == (interval_minutes * SecsPerMinute) % U64Modulus


\* HeaderMap::insert: the value replaces every value the name had
HeaderMapInsert(headers, name, value) ==
    SelectSeq(headers, LAMBDA h : h.name # name) \o <<[name |-> name, value |-> value]>>

\* HeaderMap::append: the value is added next to the ones the name has
HeaderMapAppend(headers, name, value) ==
    headers \o <<[name |-> name, value |-> value]>>

\* the values a header map holds under a name
HeaderValues(headers, name) == SelectSeq(headers, LAMBDA h : h.name = name)

(***************************************************************************)
(* State.                                                                  *)
(***************************************************************************)
VARIABLES
    args,          \* the parsed command line (main, line 173)
    pc,            \* position of the single thread
    now,           \* the monotonic clock (Instant), seconds
    wallOffset,    \* the system clock (SystemTime) minus the monotonic clock, wall units
    clockWentBack, \* whether the system clock was ever set back
    interval,      \* execute_at_interval: interval, seconds
    start,         \* execute_at_interval: start
    elapsed,       \* execute_at_interval: elapsed
    wakeAt,        \* the instant the pending thread::sleep ends
    cycle,         \* invocations of task so far
    taskResult,    \* what the last invocation of task returned
    hostname, download_speed, avg_latency, time,   \* locals of collect_and_push
    write_request, \* collect_and_push: write_request
    encoded,       \* collect_and_push: req as the wire encoder returned it
    req,           \* collect_and_push: req, then the reqwest request
    response,      \* collect_and_push: the status of response
    cycleWall,     \* the system clock when the running cycle was invoked
    measuredWall,  \* the system clock when the measurements of the cycle ended
    measurements,  \* measurements that have returned, over all cycles
    inFlight,      \* cycles invoked and not yet returned
    outstanding,   \* requests put on the network and not yet answered or failed
    sent,          \* every request put on the network, in order, with its outcome
    log,           \* every log record emitted, in order
    sleeps,        \* every thread::sleep call: cycle, duration, instant of the call
    starts,        \* the start instant of every iteration, in order
    result,        \* what execute_at_interval returned
    exit           \* what main returned

vars == << args, pc, now, wallOffset, clockWentBack, interval, start, elapsed,
           wakeAt, cycle, taskResult, hostname, download_speed, avg_latency,
           time, write_request, encoded, req, response, cycleWall, measuredWall,
           measurements, inFlight, outstanding, sent, log, sleeps, starts, result, exit >>

schedVars == << interval, start, elapsed, wakeAt, sleeps, starts, result, exit >>
clockVars == << now, wallOffset, clockWentBack >>
localVars == << hostname, download_speed, avg_latency, time, write_request,
               encoded, req, response >>
ghostVars == << cycleWall, measuredWall, measurements >>
netVars   == << outstanding, sent >>

\* SystemTime::now(), in wall units since the epoch
wall == now * WallUnitsPerSec + wallOffset

None == "none"
NoWriteRequest == [timeseries |-> <<>>]
NoReq == [method |-> None, uri |-> None, headers |-> <<>>, body |-> NoWriteRequest]
Ok == [ok |-> TRUE, err |-> None]
Err(e) == [ok |-> FALSE, err |-> e]
\* the value of result and exit while the function is still running
Running == [ok |-> FALSE, err |-> "running"]
\* what became of a request put on the network
Pending == [kind |-> "pending", status |-> 0]
Responded(st) == [kind |-> "response", status |-> st]
Failed == [kind |-> "error", status |-> 0]

\* the locals of collect_and_push before they are bound and after they are
\* dropped
NoLocals ==
    /\ hostname' = <<>>
    /\ download_speed' = 0
    /\ avg_latency' = 0
    /\ time' = 0
    /\ write_request' = NoWriteRequest
    /\ encoded' = NoReq
    /\ req' = NoReq
    /\ response' = 0

Init ==
    /\ args \in Args
    /\ pc = "main"
    /\ now = 0
    /\ wallOffset = WallInit
    /\ clockWentBack = FALSE
    /\ interval = 0
    /\ start = 0
    /\ elapsed = 0
    /\ wakeAt = 0
    /\ cycle = 0
    /\ taskResult = Ok
    /\ hostname = <<>>
    /\ download_speed = 0
    /\ avg_latency = 0
    /\ time = 0
    /\ write_request = NoWriteRequest
    /\ encoded = NoReq
    /\ req = NoReq
    /\ response = 0
    /\ cycleWall = 0
    /\ measuredWall = 0
    /\ measurements = 0
    /\ inFlight = 0
    /\ outstanding = 0
    /\ sent = <<>>
    /\ log = <<>>
    /\ sleeps = <<>>
    /\ starts = <<>>
    /\ result = Running
    /\ exit = Running

(***************************************************************************)
(* The clocks.                                                             *)
(***************************************************************************)
\* where the thread is blocked for whole ticks: the measurement and the
\* sleep (a send is cut off by the client's 30 s timeout, within one tick)
Blocking == {"download", "sleeping"}

\* time passes while the thread is blocked; a sleep ends within one tick of
\* its deadline
Tick ==
    /\ pc \in Blocking
    /\ now < MaxTicks * TickSecs
    /\ pc = "sleeping" => now < wakeAt
    /\ now' = now + TickSecs
    /\ UNCHANGED << args, pc, wallOffset, clockWentBack, cycle, taskResult, inFlight, log >>
    /\ UNCHANGED << schedVars, localVars, ghostVars, netVars >>

\* the system clock is set by something outside the process
ClockJump ==
    /\ pc \in Blocking
    /\ \E o \in WallOffsets \ {wallOffset} :
         /\ wallOffset' = o
         /\ clockWentBack' = (clockWentBack \/ o < wallOffset)
    /\ UNCHANGED << args, pc, now, cycle, taskResult, inFlight, log >>
    /\ UNCHANGED << schedVars, localVars, ghostVars, netVars >>

(***************************************************************************)
(* main and execute_at_interval.                                           *)
(***************************************************************************)
\* main, lines 173-178: log the interval and enter execute_at_interval,
\* whose line 151 computes the interval
MainStart ==
    /\ pc = "main"
    /\ log' = Append(log, [level |-> "info", kind |-> "start", cycle |-> 0,
                           value |-> args.interval])
    /\ interval' = IntervalOf(args.interval)
    /\ pc' = "loop"
    /\ UNCHANGED << args, cycle, taskResult, inFlight, start, elapsed, wakeAt,
                    sleeps, starts, result, exit >>
    /\ UNCHANGED << clockVars, localVars, ghostVars, netVars >>

\* line 151 where overflow checks are on (debug builds): the product panics
MainStartOverflow ==
    /\ pc = "main"
    /\ Overflows(args.interval)
    /\ log' = Append(log, [level |-> "info", kind |-> "start", cycle |-> 0,
                           value |-> args.interval])
    /\ pc' = "panic_overflow"
    /\ UNCHANGED << args, cycle, taskResult, inFlight >>
    /\ UNCHANGED << schedVars, clockVars, localVars, ghostVars, netVars >>

\* lines 153-157: take the start instant and invoke the task
LoopStart ==
    /\ pc = "loop"
    /\ cycle < MaxCycles
    /\ start' = now
    /\ starts' = Append(starts, now)
    /\ cycle' = cycle + 1
    /\ inFlight' = inFlight + 1
    /\ cycleWall' = wall
    /\ pc' = "hostname"
    /\ UNCHANGED << args, taskResult, log, interval, elapsed, wakeAt, sleeps,
                    result, exit, measuredWall, measurements >>
    /\ UNCHANGED << clockVars, localVars, netVars >>

\* a scheduler that swallows the error and goes on
TaskFailedRetry ==
    /\ pc = "task_ret"
    /\ ~taskResult.ok
    /\ pc' = "loop"
    /\ UNCHANGED << args, cycle, taskResult, inFlight, log >>
    /\ UNCHANGED << schedVars, clockVars, localVars, ghostVars, netVars >>

\* line 157, the ? operator: a failed task ends execute_at_interval with
\* the task's error
TaskFailed ==
    /\ pc = "task_ret"
    /\ ~taskResult.ok
    /\ result' = taskResult
    /\ pc' = "main_ret"
    /\ UNCHANGED << args, cycle, taskResult, inFlight, log, interval, start,
                    elapsed, wakeAt, sleeps, starts, exit >>
    /\ UNCHANGED << clockVars, localVars, ghostVars, netVars >>

\* a scheduler that sleeps for the whole interval after every cycle
SleepForWhole(iv, el) == IF el < iv THEN iv ELSE -1

\* a scheduler that keeps to the grid of its first start: it sleeps until the
\* next multiple of the interval counted from there, however late it is
SleepForGrid(iv, el) ==
    LET due == starts[1] + Len(starts) * iv
    IN  IF now < due THEN due - now ELSE -1

\* a scheduler that also sleeps when the cycle took exactly the interval
SleepForUpTo(iv, el) == IF el <= iv THEN iv - el ELSE -1

\* lines 161-163: the duration handed to thread::sleep, or -1 for no sleep
SleepFor(iv, el) == IF el < iv THEN iv - el ELSE -1

\* a scheduler that returns Ok after a successful cycle
TaskSucceededOnce ==
    /\ pc = "task_ret"
    /\ taskResult.ok
    /\ result' = Ok
    /\ pc' = "main_ret"
    /\ UNCHANGED << args, cycle, taskResult, inFlight, log, interval, start,
                    elapsed, wakeAt, sleeps, starts, exit >>
    /\ UNCHANGED << clockVars, localVars, ghostVars, netVars >>

\* a scheduler that keeps what is left of the interval as the interval
TaskSucceededDrifting ==
    /\ pc = "task_ret"
    /\ taskResult.ok
    /\ elapsed' = now - start
    /\ LET d == SleepFor(interval, elapsed')
       IN  IF d >= 0
           THEN /\ pc' = "sleeping"
                /\ wakeAt' = now + d
                /\ interval' = d
                /\ sleeps' = Append(sleeps, [cycle |-> cycle, dur |-> d, from |-> now])
           ELSE /\ pc' = "loop"
                /\ UNCHANGED << wakeAt, sleeps, interval >>
    /\ UNCHANGED << args, cycle, taskResult, inFlight, log, start,
                    starts, result, exit >>
    /\ UNCHANGED << clockVars, localVars, ghostVars, netVars >>

\* lines 160-163: measure the elapsed time and sleep for the rest of the
\* interval, or go straight to the next iteration
TaskSucceeded ==
    /\ pc = "task_ret"
    /\ taskResult.ok
    /\ elapsed' = now - start
    /\ LET d == SleepFor(interval, elapsed')
       IN  IF d >= 0
           THEN /\ pc' = "sleeping"
                /\ wakeAt' = now + d
                /\ sleeps' = Append(sleeps, [cycle |-> cycle, dur |-> d, from |-> now])
           ELSE /\ pc' = "loop"
                /\ UNCHANGED << wakeAt, sleeps >>
    /\ UNCHANGED << args, cycle, taskResult, inFlight, log, interval, start,
                    starts, result, exit >>
    /\ UNCHANGED << clockVars, localVars, ghostVars, netVars >>

\* thread::sleep returns once the duration has passed
Wake ==
    /\ pc = "sleeping"
    /\ now >= wakeAt
    /\ pc' = "loop"
    /\ UNCHANGED << args, cycle, taskResult, inFlight, log >>
    /\ UNCHANGED << schedVars, clockVars, localVars, ghostVars, netVars >>

\* a main that ignores what the scheduler returned
MainResultIgnored(r) == Ok

\* main, lines 178-184: the ? operator hands on the scheduler's error
MainResult(r) == IF r.ok THEN Ok ELSE r

\* the exit status of a main that returns Result
ExitCode(r) == IF r.ok THEN 0 ELSE 1

\* main, lines 183-184: main returns
MainReturn ==
    /\ pc = "main_ret"
    /\ exit' = MainResult(result)
    /\ pc' = "exit"
    /\ UNCHANGED << args, cycle, taskResult, inFlight, log, interval, start,
                    elapsed, wakeAt, sleeps, starts, result >>
    /\ UNCHANGED << clockVars, localVars, ghostVars, netVars >>

(***************************************************************************)
(* collect_and_push: one cycle.                                            *)
(***************************************************************************)
\* the cycle returns: its locals are dropped
Return(r) ==
    /\ taskResult' = r
    /\ inFlight' = inFlight - 1
    /\ pc' = "task_ret"
    /\ NoLocals

\* line 46: hostname::get() succeeds
GetHostname ==
    /\ pc = "hostname"
    /\ \E h \in Hostnames : hostname' = h
    /\ pc' = "download"
    /\ UNCHANGED << args, cycle, taskResult, inFlight, log, download_speed,
                    avg_latency, time, write_request, encoded, req, response >>
    /\ UNCHANGED << schedVars, clockVars, ghostVars, netVars >>

\* line 46: hostname::get() fails
GetHostnameFail ==
    /\ pc = "hostname"
    /\ Return(Err("HostResolutionError"))
    /\ UNCHANGED << args, cycle, log >>
    /\ UNCHANGED << schedVars, clockVars, ghostVars, netVars >>

\* lines 48-52: test_download returns a throughput
TestDownload ==
    /\ pc = "download"
    /\ \E v \in DownloadSpeeds : download_speed' = v
    /\ measurements' = measurements + 1
    /\ pc' = "latency"
    /\ UNCHANGED << args, cycle, taskResult, inFlight, log, hostname, cycleWall,
                    measuredWall, avg_latency, time, write_request, encoded, req,
                    response >>
    /\ UNCHANGED << schedVars, clockVars, netVars >>

\* lines 54-58: run_latency_test returns an average latency
RunLatencyTest ==
    /\ pc = "latency"
    /\ \E v \in Latencies : avg_latency' = v
    /\ measuredWall' = wall
    /\ measurements' = measurements + 1
    /\ pc' = "clock"
    /\ UNCHANGED << args, cycle, taskResult, inFlight, log, hostname, cycleWall,
                    download_speed, time, write_request, encoded, req, response >>
    /\ UNCHANGED << schedVars, clockVars, netVars >>

\* a write request whose latency series repeats the bandwidth measurement
AssembleRepeated(host, download, latency, t) ==
    [timeseries |-> <<
        [labels  |-> << [name |-> "hostname", value |-> ToStringLossy(host)],
                        [name |-> LABEL_NAME, value |-> "sw_internet_bandwidth_mbit"] >>,
         samples |-> << [value |-> download, timestamp |-> t] >>],
        [labels  |-> << [name |-> "hostname", value |-> ToStringLossy(host)],
                        [name |-> LABEL_NAME, value |-> "sw_internet_latency_ms"] >>,
         samples |-> << [value |-> download, timestamp |-> t] >>] >>]

\* lines 68-104: the two time series of one cycle
Assemble(host, download, latency, t) ==
    [timeseries |-> <<
        [labels  |-> << [name |-> "hostname", value |-> ToStringLossy(host)],
                        [name |-> LABEL_NAME, value |-> "sw_internet_bandwidth_mbit"] >>,
         samples |-> << [value |-> download, timestamp |-> t] >>],
        [labels  |-> << [name |-> "hostname", value |-> ToStringLossy(host)],
                        [name |-> LABEL_NAME, value |-> "sw_internet_latency_ms"] >>,
         samples |-> << [value |-> latency, timestamp |-> t] >>] >>]

\* a cycle that stamps its samples with the clock as it was on entry
ClockReadingOnEntry == cycleWall

\* a cycle that stamps its samples with the time since its entry
ClockReadingSinceEntry == wall - cycleWall

\* line 61: SystemTime::now(), read where the write request is built
ClockReading == wall

\* lines 61-104: read the system clock and assemble the write request
ReadClock ==
    /\ pc = "clock"
    /\ ClockReading >= 0
    /\ time' = AsMillis(ClockReading)
    /\ write_request' = Assemble(hostname, download_speed, avg_latency, time')
    /\ pc' = "build"
    /\ UNCHANGED << args, cycle, taskResult, inFlight, log, hostname,
                    download_speed, avg_latency, encoded, req, response >>
    /\ UNCHANGED << schedVars, clockVars, ghostVars, netVars >>

\* lines 61-63: the system clock is before the epoch
ReadClockFail ==
    /\ pc = "clock"
    /\ ClockReading < 0
    /\ Return(Err("ClockError"))
    /\ UNCHANGED << args, cycle, log >>
    /\ UNCHANGED << schedVars, clockVars, ghostVars, netVars >>

\* WriteRequest::build_http_request: a POST to the endpoint with the
\* protocol's headers; whether it sets an Authorization header of its own is
\* the encoder's business
EncoderRequest(wr, url, user_agent, ownAuth) ==
    [method  |-> "POST",
     uri     |-> url,
     headers |-> << [name |-> "content-type", value |-> "application/x-protobuf"],
                    [name |-> "content-encoding", value |-> "snappy"],
                    [name |-> "user-agent", value |-> user_agent] >>
                 \o (IF ownAuth THEN << [name |-> "authorization", value |-> <<66>>] >>
                     ELSE <<>>),
     body    |-> wr]

\* lines 106-114: parse the URL and let the wire encoder build the request
BuildHttpRequest ==
    /\ pc = "build"
    /\ ParseUrl(args.remote_write_url) # ""
    /\ \E ownAuth \in BOOLEAN :
         encoded' = EncoderRequest(write_request, ParseUrl(args.remote_write_url),
                                   USER_AGENT, ownAuth)
    /\ req' = encoded'
    /\ pc' = "auth"
    /\ UNCHANGED << args, cycle, taskResult, inFlight, log, hostname,
                    download_speed, avg_latency, time, write_request, response >>
    /\ UNCHANGED << schedVars, clockVars, ghostVars, netVars >>

\* a cycle that logs what it measured before it builds the request
ParseUrlFailLogged ==
    /\ pc = "build"
    /\ ParseUrl(args.remote_write_url) = ""
    /\ log' = log \o << [level |-> "info", kind |-> "time", cycle |-> cycle, value |-> time],
                        [level |-> "info", kind |-> "download", cycle |-> cycle,
                         value |-> download_speed],
                        [level |-> "info", kind |-> "latency", cycle |-> cycle,
                         value |-> avg_latency] >>
    /\ Return(Err("UrlParseError"))
    /\ UNCHANGED << args, cycle >>
    /\ UNCHANGED << schedVars, clockVars, ghostVars, netVars >>

\* lines 108-111: the URL does not parse
ParseUrlFail ==
    /\ pc = "build"
    /\ ParseUrl(args.remote_write_url) = ""
    /\ Return(Err("UrlParseError"))
    /\ UNCHANGED << args, cycle, log >>
    /\ UNCHANGED << schedVars, clockVars, ghostVars, netVars >>

\* line 114: the wire encoder fails
EncodeFail ==
    /\ pc = "build"
    /\ ParseUrl(args.remote_write_url) # ""
    /\ Return(Err("operation failed"))
    /\ UNCHANGED << args, cycle, log >>
    /\ UNCHANGED << schedVars, clockVars, ghostVars, netVars >>

\* lines 116-119: the credentials, base64 encoded
Credentials(a) ==
    STANDARD_encode(FormatCredentials(a.username_remote_write, a.password_remote_write))

\* a builder that appends the header instead of inserting it
WithAuthorizationAppended(r, a) ==
    [r EXCEPT !.headers = HeaderMapAppend(r.headers, "authorization",
                                          FormatBasic(Credentials(a)))]

\* lines 120-123: headers_mut().insert("Authorization", ...)
WithAuthorization(r, a) ==
    [r EXCEPT !.headers = HeaderMapInsert(r.headers, "authorization",
                                          FormatBasic(Credentials(a)))]

\* lines 116-123: set the Authorization header; parse().unwrap() panics on
\* a value that is no header value
InsertAuthorization ==
    /\ pc = "auth"
    /\ IF HeaderValueOk(FormatBasic(Credentials(args)))
       THEN /\ req' = WithAuthorization(req, args)
            /\ pc' = "client"
            /\ UNCHANGED inFlight
       ELSE /\ pc' = "panic"
            /\ inFlight' = inFlight - 1
            /\ UNCHANGED req
    /\ UNCHANGED << args, cycle, taskResult, log, hostname, download_speed,
                    avg_latency, time, write_request, encoded, response >>
    /\ UNCHANGED << schedVars, clockVars, ghostVars, netVars >>

RECURSIVE CopyHeaders(_, _)
\* lines 134-136: req_builder.header(name, value) for every header
CopyHeaders(headers, acc) ==
    IF headers = <<>> THEN acc
    ELSE CopyHeaders(Tail(headers),
                     HeaderMapAppend(acc, Head(headers).name, Head(headers).value))

\* lines 131-137: the reqwest request made from the parts of req
ToReqwest(r) ==
    [method |-> r.method, uri |-> r.uri, headers |-> CopyHeaders(r.headers, <<>>),
     body |-> r.body]

\* lines 126-137: build the client and the reqwest request
BuildClient ==
    /\ pc = "client"
    /\ req' = ToReqwest(req)
    /\ pc' = "send"
    /\ UNCHANGED << args, cycle, taskResult, inFlight, log, hostname, download_speed,
                    avg_latency, time, write_request, encoded, response >>
    /\ UNCHANGED << schedVars, clockVars, ghostVars, netVars >>

\* lines 126-129: Client::builder().build() fails
BuildClientFail ==
    /\ pc = "client"
    /\ Return(Err("ClientBuildError"))
    /\ UNCHANGED << args, cycle, log >>
    /\ UNCHANGED << schedVars, clockVars, ghostVars, netVars >>

\* a send that does not wait for the answer
SendNoWait ==
    /\ pc = "send"
    /\ sent' = Append(sent, [cycle |-> cycle, req |-> req, outcome |-> Pending])
    /\ outstanding' = outstanding + 1
    /\ pc' = "log"
    /\ UNCHANGED << args, cycle, taskResult, inFlight, log >>
    /\ UNCHANGED << schedVars, clockVars, localVars, ghostVars >>

\* line 138: send() puts the request on the network and blocks
Send ==
    /\ pc = "send"
    /\ sent' = Append(sent, [cycle |-> cycle, req |-> req, outcome |-> Pending])
    /\ outstanding' = outstanding + 1
    /\ pc' = "await"
    /\ UNCHANGED << args, cycle, taskResult, inFlight, log >>
    /\ UNCHANGED << schedVars, clockVars, localVars, ghostVars >>

\* the request the thread is blocked on gets its outcome
Outcome(o) ==
    /\ sent' = [sent EXCEPT ![Len(sent)].outcome = o]
    /\ outstanding' = outstanding - 1

\* a send that takes a status of 400 and above for a failure
ReceiveErrorForStatus ==
    /\ pc = "await"
    /\ \E st \in Statuses :
         /\ Outcome(Responded(st))
         /\ IF st < 400
            THEN /\ response' = st
                 /\ pc' = "log"
                 /\ UNCHANGED << taskResult, inFlight, hostname, download_speed,
                                 avg_latency, time, write_request, encoded, req >>
            ELSE Return(Err("TransportError"))
    /\ UNCHANGED << args, cycle, log >>
    /\ UNCHANGED << schedVars, clockVars, ghostVars >>

\* line 138: a response arrives, whatever its status
Receive ==
    /\ pc = "await"
    /\ \E st \in Statuses :
         /\ Outcome(Responded(st))
         /\ response' = st
    /\ pc' = "log"
    /\ UNCHANGED << args, cycle, taskResult, inFlight, log, hostname, download_speed,
                    avg_latency, time, write_request, encoded, req >>
    /\ UNCHANGED << schedVars, clockVars, ghostVars >>

\* a send that is tried again when it fails
SendFailRetry ==
    /\ pc = "await"
    /\ Outcome(Failed)
    /\ pc' = "send"
    /\ UNCHANGED << args, cycle, taskResult, inFlight, log >>
    /\ UNCHANGED << schedVars, clockVars, localVars, ghostVars >>

\* a cycle that logs what it measured before it looks at the result of send
SendFailLogged ==
    /\ pc = "await"
    /\ Outcome(Failed)
    /\ log' = log \o << [level |-> "info", kind |-> "time", cycle |-> cycle, value |-> time],
                        [level |-> "info", kind |-> "download", cycle |-> cycle,
                         value |-> download_speed],
                        [level |-> "info", kind |-> "latency", cycle |-> cycle,
                         value |-> avg_latency] >>
    /\ Return(Err("TransportError"))
    /\ UNCHANGED << args, cycle >>
    /\ UNCHANGED << schedVars, clockVars, ghostVars >>

\* line 138: the request does not complete (connection, timeout, TLS, DNS)
SendFail ==
    /\ pc = "await"
    /\ Outcome(Failed)
    /\ Return(Err("TransportError"))
    /\ UNCHANGED << args, cycle, log >>
    /\ UNCHANGED << schedVars, clockVars, ghostVars >>

\* lines 140-144: log the cycle and return Ok
LogAndReturn ==
    /\ pc = "log"
    /\ log' = log \o << [level |-> "info", kind |-> "time", cycle |-> cycle, value |-> time],
                        [level |-> "info", kind |-> "download", cycle |-> cycle,
                         value |-> download_speed],
                        [level |-> "info", kind |-> "latency", cycle |-> cycle,
                         value |-> avg_latency],
                        [level |-> "debug", kind |-> "status", cycle |-> cycle,
                         value |-> response] >>
    /\ Return(Ok)
    /\ UNCHANGED << args, cycle >>
    /\ UNCHANGED << schedVars, clockVars, ghostVars, netVars >>

(***************************************************************************)
(* The program.                                                            *)
(***************************************************************************)
Next ==
    \/ MainStart
    \/ MainStartOverflow
    \/ LoopStart
    \/ GetHostname
    \/ GetHostnameFail
    \/ TestDownload
    \/ RunLatencyTest
    \/ ReadClock
    \/ ReadClockFail
    \/ BuildHttpRequest
    \/ ParseUrlFail
    \/ EncodeFail
    \/ InsertAuthorization
    \/ BuildClient
    \/ BuildClientFail
    \/ Send
    \/ Receive
    \/ SendFail
    \/ LogAndReturn
    \/ TaskFailed
    \/ TaskSucceeded
    \/ Wake
    \/ MainReturn
    \/ Tick
    \/ ClockJump

Spec == Init /\ [][Next]_vars

\* the start-up states with one of the user names: the scheduler never looks
\* at the credentials
InitOneUser == Init /\ \A u \in Usernames : Len(args.username_remote_write) <= Len(u)

\* The scheduler's own steps are taken when they can be: the thread runs
\* (lines 153-163), time passes, and thread::sleep returns.
FairSpec ==
    /\ InitOneUser
    /\ [][Next]_vars
    /\ WF_vars(TaskSucceeded)
    /\ WF_vars(Tick)
    /\ WF_vars(Wake)
    /\ WF_vars(LoopStart)


(***************************************************************************)
(* Properties.                                                             *)
(***************************************************************************)
\* the pcs at which no cycle is running
Outside == {"main", "panic_overflow", "loop", "task_ret", "sleeping", "main_ret", "exit"}
\* the errors a cycle returns
CycleErrors == {"HostResolutionError", "ClockError", "UrlParseError", "operation failed",
                "ClientBuildError", "TransportError"}
\* the last request put on the network
LastSent == sent[Len(sent)]
\* the cycle that just returned put a request on the network
ReturnedAfterSend == pc = "task_ret" /\ sent # <<>> /\ LastSent.cycle = cycle

\* C1: once an invocation of the task has returned an error, every further
\* step leaves the number of invocations and the sleeps as they are, leads
\* to the return of execute_at_interval only, and what execute_at_interval
\* returns is that error.
C1_FailurePropagates ==
    [][ ~taskResult.ok =>
          /\ cycle' = cycle
          /\ starts' = starts
          /\ sleeps' = sleeps
          /\ taskResult' = taskResult
          /\ pc' \in {"main_ret", "exit"}
          /\ result' = taskResult ]_vars

\* C1 witness: the second invocation failed after one sleep, and the
\* scheduler returned its error
C1_Witness ==
    /\ pc = "main_ret"
    /\ cycle = 2
    /\ Len(sleeps) = 1
    /\ result = Err("TransportError")

\* C2: when an iteration starts after a successful one, then if the elapsed
\* time D of that one was below the interval I, the scheduler has slept, the
\* sleep was called at start + D for I - D, and the new start is no earlier
\* than the previous start + I; if D >= I there was no sleep and the new
\* start is the instant the elapsed time was measured.
C2_SleepsForTheRest ==
    (pc = "hostname" /\ cycle >= 2) =>
        LET prev == starts[cycle - 1]
            slept == {i \in DOMAIN sleeps : sleeps[i].cycle = cycle - 1}
        IN  IF elapsed < interval
            THEN /\ Cardinality(slept) = 1
                 /\ \A i \in slept : /\ sleeps[i].from = prev + elapsed
                                     /\ sleeps[i].dur = interval - elapsed
                 /\ start >= prev + interval
            ELSE /\ slept = {}
                 /\ start = prev + elapsed

\* C2 witness: the second iteration starts after a first one that took
\* some time, but less than the interval
C2_Witness ==
    /\ pc = "hostname"
    /\ cycle = 2
    /\ elapsed > 0
    /\ elapsed < interval

\* C3: a cycle that failed has returned one of the cycle's errors and nothing
\* runs after it but the return of the scheduler and of main; the scheduler
\* and main return only with that error, and the exit status is not zero.
C3_CycleErrorsAreFatal ==
    /\ ~taskResult.ok => /\ pc \in {"task_ret", "main_ret", "exit"}
                         /\ taskResult.err \in CycleErrors
                         /\ inFlight = 0
    /\ pc \in {"main_ret", "exit"} => (~taskResult.ok /\ result = taskResult)
    /\ pc = "exit" => (exit = taskResult /\ ExitCode(exit) # 0)

\* C3 witness: main has returned the clock error of the second cycle
C3_Witness ==
    /\ pc = "exit"
    /\ cycle = 2
    /\ exit = Err("ClockError")

\* C4: a cycle that put its request on the network returns Ok exactly when
\* a response arrived, whatever its status, and the transport error
\* otherwise; after a response the scheduler goes on to sleep or to the next
\* iteration.
C4_AnyResponseIsDelivery ==
    /\ [](ReturnedAfterSend =>
            /\ taskResult.ok <=> LastSent.outcome.kind = "response"
            /\ ~taskResult.ok <=> LastSent.outcome.kind = "error"
            /\ ~taskResult.ok => taskResult = Err("TransportError"))
    /\ [][(ReturnedAfterSend /\ LastSent.outcome.kind = "response")
            => pc' \in {"sleeping", "loop"}]_vars

\* C4 witness: the second cycle runs after a first one that was answered 500
C4_Witness ==
    /\ pc = "hostname"
    /\ cycle = 2
    /\ Len(sent) = 1
    /\ sent[1].outcome = Responded(500)

\* C5: at most one cycle is in flight and at most one request outstanding;
\* a request is outstanding only inside its cycle, while the thread waits
\* for it; outside a cycle (between iterations, asleep, returning) nothing
\* is in flight, and a cycle starts with every earlier request settled.
C5_OneAtATime ==
    /\ inFlight \in {0, 1}
    /\ outstanding \in {0, 1}
    /\ outstanding = 1 => (inFlight = 1 /\ pc = "await")
    /\ pc \in Outside => (inFlight = 0 /\ outstanding = 0)
    /\ pc \notin Outside \cup {"panic"} => inFlight = 1
    /\ pc = "hostname" => \A i \in DOMAIN sent : sent[i].outcome.kind # "pending"
    /\ \A i \in DOMAIN sent : sent[i].outcome.kind = "pending" => i = Len(sent)

\* C5 witness: the request of the second cycle is outstanding
C5_Witness ==
    /\ pc = "await"
    /\ cycle = 2
    /\ outstanding = 1
    /\ Len(sent) = 2


\* the pcs of a cycle at which its write request is assembled
Assembled == {"build", "auth", "client", "send", "await", "log"}

\* a time series named metric, with the host label, no label name twice and
\* the one sample (v, t)
SeriesOk(ts, metric, v, t, host) ==
    /\ \A i, j \in DOMAIN ts.labels :
          ts.labels[i].name = ts.labels[j].name => i = j
    /\ \E i \in DOMAIN ts.labels :
          ts.labels[i].name = "hostname" /\ ts.labels[i].value = ToStringLossy(host)
    /\ \E i \in DOMAIN ts.labels :
          ts.labels[i].name = "__name__" /\ ts.labels[i].value = metric
    /\ Len(ts.samples) = 1
    /\ ts.samples[1].value = v
    /\ ts.samples[1].timestamp = t

\* exactly two series, one of bandwidth and one of latency
WriteRequestOk(wr, host, download, latency, t) ==
    /\ Len(wr.timeseries) = 2
    /\ \E i, j \in DOMAIN wr.timeseries :
          /\ i # j
          /\ SeriesOk(wr.timeseries[i], "sw_internet_bandwidth_mbit", download, t, host)
          /\ SeriesOk(wr.timeseries[j], "sw_internet_latency_ms", latency, t, host)

\* C6: the write request a cycle has assembled holds exactly two series, of
\* bandwidth and of latency, each with the host label, the metric name, no
\* label name twice and one sample, stamped with the time of this cycle and
\* carrying what this cycle measured; it is the body of the request the
\* cycle builds and sends.
C6_TwoSeriesOfThisCycle ==
    /\ pc \in Assembled =>
          WriteRequestOk(write_request, hostname, download_speed, avg_latency, time)
    /\ pc \in {"auth", "client", "send", "await", "log"} => req.body = write_request
    /\ pc \in {"await", "log"} => (LastSent.cycle = cycle /\ LastSent.req.body = write_request)
    /\ \A i \in DOMAIN sent : Len(sent[i].req.body.timeseries) = 2

\* C6 witness: the second cycle has sent a request with its own measurement,
\* which differs from the first cycle's
C6_Witness ==
    /\ pc = "await"
    /\ cycle = 2
    /\ Len(sent) = 2
    /\ download_speed = 50
    /\ sent[1].req.body.timeseries[1].samples[1].value = 0
    /\ sent[2].req.body.timeseries[1].samples[1].value = 50

\* C7 as claimed: the time of the samples is the system clock as it was
\* when the cycle was invoked.
C7_StampedOnEntry ==
    pc \in Assembled => time = AsMillis(cycleWall)

\* C7, amended: the time of the samples is the system clock in milliseconds
\* as it is once the download and latency measurements have returned.
C7_StampedAfterMeasuring ==
    pc \in Assembled =>
       /\ time = AsMillis(measuredWall)
       /\ \A i \in DOMAIN write_request.timeseries :
             write_request.timeseries[i].samples[1].timestamp = time

\* C7 witness: time has passed during the measurements and the samples are
\* stamped with the later reading
C7_Witness ==
    /\ pc = "send"
    /\ measuredWall > cycleWall
    /\ time = AsMillis(measuredWall)
    /\ time > AsMillis(cycleWall)

\* the time stamp of a request put on the network
TimestampOf(s) == s.req.body.timeseries[1].samples[1].timestamp

\* C8: as long as the system clock was never set back, the requests put on
\* the network are in the order of their cycles and their time stamps never
\* decrease.
C8_TimestampsNeverDecrease ==
    ~clockWentBack =>
        \A i, j \in DOMAIN sent :
            i < j => /\ sent[i].cycle < sent[j].cycle
                     /\ TimestampOf(sent[i]) <= TimestampOf(sent[j])

\* C8 witness: two requests were sent, the second with a later time stamp
C8_Witness ==
    /\ Len(sent) = 2
    /\ ~clockWentBack
    /\ TimestampOf(sent[1]) < TimestampOf(sent[2])

\* the inverse of the base64 alphabet
B64Index(c) ==
    IF c >= 65 /\ c <= 90 THEN c - 65
    ELSE IF c >= 97 /\ c <= 122 THEN c - 97 + 26
    ELSE IF c >= 48 /\ c <= 57 THEN c - 48 + 52
    ELSE IF c = 43 THEN 62
    ELSE IF c = 47 THEN 63
    ELSE -1

RECURSIVE Base64Decode(_)
\* the bytes a padded base64 text stands for; <<-1>> for a text that is none
Base64Decode(chars) ==
    IF chars = <<>> THEN <<>>
    ELSE IF Len(chars) < 4 THEN <<-1>>
    ELSE LET i0 == B64Index(chars[1])
             i1 == B64Index(chars[2])
             last == Len(chars) = 4
             p2 == last /\ chars[3] = PadChar /\ chars[4] = PadChar
             p3 == last /\ chars[4] = PadChar
             i2 == IF p2 THEN 0 ELSE B64Index(chars[3])
             i3 == IF p3 THEN 0 ELSE B64Index(chars[4])
         IN  IF i0 < 0 \/ i1 < 0 \/ i2 < 0 \/ i3 < 0 THEN <<-1>>
             ELSE << i0 * 4 + (i1 \div 16) >>
                  \o (IF p2 THEN <<>> ELSE << (i1 % 16) * 16 + (i2 \div 4) >>)
                  \o (IF p3 THEN <<>> ELSE << (i2 % 4) * 64 + i3 >>)
                  \o Base64Decode(SubSeq(chars, 5, Len(chars)))

\* exactly one Authorization header, "Basic " and the base64 text of
\* username:password
AuthorizationOk(headers, a) ==
    LET vs == HeaderValues(headers, "authorization")
    IN  /\ Len(vs) = 1
        /\ LET v == vs[1].value
           IN  /\ Len(v) >= Len(BasicPrefix)
               /\ SubSeq(v, 1, Len(BasicPrefix)) = BasicPrefix
               /\ Base64Decode(SubSeq(v, Len(BasicPrefix) + 1, Len(v)))
                    = a.username_remote_write \o <<Colon>> \o a.password_remote_write

\* C9: the request carries exactly one Authorization header from the moment
\* it is set, through the request handed to the HTTP client, to every
\* request put on the network: "Basic " followed by the base64 text of
\* username:password, whatever the wire encoder had set; setting it never
\* panics.
C9_BasicAuthorization ==
    /\ pc # "panic"
    /\ pc \in {"client", "send", "await", "log"} => AuthorizationOk(req.headers, args)
    /\ \A i \in DOMAIN sent : AuthorizationOk(sent[i].req.headers, args)

\* C9 witness: a request is put on the network whose Authorization header
\* replaced one the wire encoder had set
C9_Witness ==
    /\ pc = "await"
    /\ HeaderValues(encoded.headers, "authorization") # <<>>
    /\ AuthorizationOk(LastSent.req.headers, args)

\* C10: no cycle puts two requests on the network; every cycle that logged
\* its response and returned Ok put exactly one; every request is a POST to
\* the configured URL as the URL parser normalises it.
C10_OneRequestPerCycle ==
    /\ \A i, j \in DOMAIN sent : sent[i].cycle = sent[j].cycle => i = j
    /\ \A i \in DOMAIN sent : /\ sent[i].req.uri = ParseUrl(args.remote_write_url)
                              /\ sent[i].req.method = "POST"
                              /\ sent[i].cycle \in 1..cycle
    /\ (pc = "task_ret" /\ taskResult.ok) =>
          Cardinality({i \in DOMAIN sent : sent[i].cycle = cycle}) = 1
    /\ \A k \in DOMAIN log : log[k].kind = "status" =>
          Cardinality({i \in DOMAIN sent : sent[i].cycle = log[k].cycle}) = 1

\* C10 witness: the second cycle returned Ok and two requests were sent
C10_Witness ==
    /\ pc = "task_ret"
    /\ taskResult.ok
    /\ cycle = 2
    /\ Len(sent) = 2


\* the sleep cannot end because the clock of the model has reached its bound
ClockExhausted == pc = "sleeping" /\ now < wakeAt /\ now >= MaxTicks * TickSecs

\* C11: execute_at_interval returns only with the error of a failed cycle;
\* and, the scheduler's steps being fair, after every cycle that returned Ok
\* the next cycle is eventually invoked (as far as the bounds on cycles and
\* on the clock of the model reach).
C11_RunsUntilFailure ==
    /\ [](pc \in {"main_ret", "exit"} => (~result.ok /\ result = taskResult))
    /\ (pc = "task_ret" /\ taskResult.ok /\ cycle < MaxCycles)
          ~> (pc = "hostname" \/ ClockExhausted)

\* C11 witness: after a first cycle that returned Ok and the sleep that
\* followed it, the second cycle is invoked
C11_Witness ==
    /\ pc = "hostname"
    /\ cycle = 2
    /\ taskResult.ok
    /\ Len(sleeps) = 1
    /\ now >= wakeAt

\* C12 as claimed: the interval the scheduler sleeps by is the configured
\* number of minutes times 60 seconds, and computing it never fails.
C12_IntervalIsMinutesTimes60 ==
    /\ pc # "panic_overflow"
    /\ pc # "main" => interval = args.interval * SecsPerMinute

\* the records of the log that cycle c emitted, in the order of the log
RECURSIVE RecordsOf(_, _)
RecordsOf(l, c) ==
    IF l = <<>> THEN <<>>
    ELSE (IF Head(l).cycle = c THEN << Head(l) >> ELSE <<>>) \o RecordsOf(Tail(l), c)

\* the request cycle c put on the network
SentOf(c) == sent[CHOOSE i \in DOMAIN sent : sent[i].cycle = c]

\* cycle c has returned Ok
ReturnedOk(c) == c < cycle \/ (c = cycle /\ pc \in Outside /\ taskResult.ok)

\* what a cycle logs at lines 140-143 for the request s it sent
RecordsFor(c, s) ==
    << [level |-> "info", kind |-> "time", cycle |-> c, value |-> TimestampOf(s)],
       [level |-> "info", kind |-> "download", cycle |-> c,
        value |-> s.req.body.timeseries[1].samples[1].value],
       [level |-> "info", kind |-> "latency", cycle |-> c,
        value |-> s.req.body.timeseries[2].samples[1].value],
       [level |-> "debug", kind |-> "status", cycle |-> c, value |-> s.outcome.status] >>

\* C13 as claimed: a cycle whose request was put on the network has emitted
\* an informational record when it returns, whether or not the delivery
\* completed.
C13_LoggedWhateverTheDelivery ==
    ReturnedAfterSend =>
        \E k \in DOMAIN log : log[k].cycle = cycle /\ log[k].level = "info"

\* C13: the log starts with the one record that announces the interval given
\* on the command line; a cycle emits its records exactly when it returns
\* Ok, that is when its request got a response: three informational records
\* with the time stamp, the download speed and the latency it sent, then one
\* diagnostic record with the status of the response; a cycle whose delivery
\* did not complete, or that failed before, emits no record.
C13_LoggedWhenDelivered ==
    /\ pc \notin {"main", "panic"} =>
          /\ log # <<>>
          /\ log[1] = [level |-> "info", kind |-> "start", cycle |-> 0,
                       value |-> args.interval]
          /\ Len(RecordsOf(log, 0)) = 1
    /\ \A c \in 1..cycle :
          IF ReturnedOk(c)
          THEN /\ \E i \in DOMAIN sent : sent[i].cycle = c
               /\ SentOf(c).outcome.kind = "response"
               /\ RecordsOf(log, c) = RecordsFor(c, SentOf(c))
          ELSE RecordsOf(log, c) = <<>>
    /\ (ReturnedAfterSend /\ LastSent.outcome.kind = "error") => RecordsOf(log, cycle) = <<>>

\* C13 witness: the first cycle was answered and logged; the delivery of the
\* second did not complete and the log holds nothing of it
C13_Witness ==
    /\ pc = "main_ret"
    /\ cycle = 2
    /\ Len(sent) = 2
    /\ sent[2].outcome = Failed
    /\ Len(log) = 5
    /\ log[5].kind = "status"
    /\ log[5].cycle = 1

\* the instant at which the elapsed time of cycle c was measured, known while
\* that is the last measurement
MeasuredAt(c) == starts[c] + elapsed

\* C14: every sleep is the interval less the time its own cycle took, counted
\* from that cycle's own start, whatever the cycles before it took; a cycle
\* that took the interval or more is followed by no sleep, and the next
\* cycle starts at the instant the elapsed time was measured.
C14_OverrunNotCompensated ==
    /\ [](\A i \in DOMAIN sleeps :
             LET c == sleeps[i].cycle
             IN  /\ sleeps[i].from >= starts[c]
                 /\ sleeps[i].dur = interval - (sleeps[i].from - starts[c])
                 /\ \A j \in DOMAIN sleeps :
                       sleeps[j].from - starts[sleeps[j].cycle] = sleeps[i].from - starts[c]
                           => sleeps[j].dur = sleeps[i].dur)
    /\ [][(pc = "task_ret" /\ taskResult.ok /\ now - start >= interval)
            => (pc' = "loop" /\ sleeps' = sleeps /\ now' = now)]_vars
    /\ [][pc = "loop" => (pc' = "hostname" /\ start' = now /\ now' = now)]_vars
    /\ []((pc = "hostname" /\ cycle >= 2 /\ elapsed >= interval)
             => /\ start = MeasuredAt(cycle - 1)
                /\ \A i \in DOMAIN sleeps : sleeps[i].cycle # cycle - 1)

\* C14 witness: the first cycle took more than the interval and was followed
\* by no sleep; the second, started off the grid, sleeps for the interval less
\* its own time
C14_Witness ==
    /\ pc = "sleeping"
    /\ cycle = 2
    /\ interval > 0
    /\ starts[2] - starts[1] > interval
    /\ Len(sleeps) = 1
    /\ sleeps[1].cycle = 2
    /\ sleeps[1].from > starts[2]
    /\ sleeps[1].dur = interval - (sleeps[1].from - starts[2])

\* C15: no step changes the arguments parsed at start-up, and none changes
\* the interval once execute_at_interval has computed it from them; every
\* request of every cycle goes to the URL and carries the credentials of
\* those arguments, and every sleep of every cycle is counted against that
\* one interval.
C15_ConfigurationIsFixed ==
    /\ [][args' = args]_vars
    /\ [][pc # "main" => interval' = interval]_vars
    /\ [](pc \notin {"main", "panic_overflow"} => interval = IntervalOf(args.interval))
    /\ [](\A i \in DOMAIN sent :
             /\ sent[i].req.uri = ParseUrl(args.remote_write_url)
             /\ AuthorizationOk(sent[i].req.headers, args)
             /\ \A j \in DOMAIN sent :
                   /\ sent[j].req.uri = sent[i].req.uri
                   /\ HeaderValues(sent[j].req.headers, "authorization")
                        = HeaderValues(sent[i].req.headers, "authorization"))
    /\ [](\A i \in DOMAIN sleeps :
             sleeps[i].dur + (sleeps[i].from - starts[sleeps[i].cycle])
                 = IntervalOf(args.interval))

\* C15 witness: two cycles have sent their requests and each was followed by
\* a sleep, of different lengths
C15_Witness ==
    /\ pc = "sleeping"
    /\ cycle = 2
    /\ Len(sent) = 2
    /\ Len(sleeps) = 2
    /\ sleeps[1].dur # sleeps[2].dur
    /\ sent[1].req.uri = sent[2].req.uri

\* the errors of the steps of a cycle that come before the send
BeforeSendErrors == CycleErrors \ {"TransportError"}
\* the measurements of one cycle: test_download and run_latency_test
PerCycle == Cardinality({"test_download", "run_latency_test"})

\* C16: a cycle that failed before the send has put no request on the
\* network and emitted no log record, and nothing is sent, logged or
\* measured after it; a failed hostname lookup comes before the cycle has
\* measured anything, every other failure before the send after both its
\* measurements; an invalid URL is found in the first cycle, after its
\* measurements, and not before.
C16_FailureEndsTheCycle ==
    /\ []((~taskResult.ok /\ taskResult.err \in BeforeSendErrors) =>
             /\ \A i \in DOMAIN sent : sent[i].cycle < cycle
             /\ outstanding = 0
             /\ RecordsOf(log, cycle) = <<>>
             /\ IF taskResult.err = "HostResolutionError"
                THEN measurements = PerCycle * (cycle - 1)
                ELSE measurements = PerCycle * cycle)
    /\ [](taskResult = Err("UrlParseError") => (cycle = 1 /\ measurements = PerCycle))
    /\ []((ParseUrl(args.remote_write_url) = "" /\ measurements < PerCycle)
             => (taskResult.ok \/ taskResult.err = "HostResolutionError"))
    /\ [][~taskResult.ok =>
             (sent' = sent /\ log' = log /\ measurements' = measurements)]_vars

\* C16 witness: the first cycle has measured twice and then failed on the
\* URL, with nothing sent and nothing logged but the start record
C16_Witness ==
    /\ pc = "task_ret"
    /\ taskResult = Err("UrlParseError")
    /\ measurements = PerCycle
    /\ sent = <<>>
    /\ Len(log) = 1

\* C17: the scheduler goes to sleep only from a cycle whose elapsed time is
\* below the interval, and then for the interval less that time; every
\* duration handed to thread::sleep is above zero and at most the interval,
\* and a cycle that took the interval or more hands none.
C17_SleepIsPositive ==
    /\ [](\A i \in DOMAIN sleeps :
             /\ sleeps[i].dur > 0
             /\ sleeps[i].dur <= interval
             /\ sleeps[i].from - starts[sleeps[i].cycle] < interval)
    /\ [](pc = "sleeping" =>
             /\ elapsed < interval
             /\ elapsed >= 0
             /\ wakeAt - (start + elapsed) = interval - elapsed)
    /\ [][(pc = "task_ret" /\ taskResult.ok) =>
             /\ (now - start < interval) <=> (pc' = "sleeping")
             /\ (now - start >= interval) <=> (sleeps' = sleeps)]_vars

\* C17 witness: the first cycle took exactly the interval and no sleep
\* followed it; the second took less and the scheduler sleeps for the rest
C17_Witness ==
    /\ pc = "sleeping"
    /\ cycle = 2
    /\ interval > 0
    /\ starts[2] - starts[1] = interval
    /\ Len(sleeps) = 1
    /\ sleeps[1].cycle = 2
    /\ elapsed > 0
    /\ sleeps[1].dur = interval - elapsed

\* C18: an interval of 0 minutes is taken as it is: the scheduler starts with
\* an interval of zero and returns nothing but the error of a cycle; it never
\* calls thread::sleep, every successful cycle is followed by the next
\* iteration at the instant its elapsed time was measured, and (as far as the
\* bound on cycles reaches) that next cycle is eventually invoked.
C18_ZeroIntervalNeverSleeps ==
    /\ [](args.interval = 0 =>
             /\ pc # "main" => interval = 0
             /\ pc \notin {"sleeping", "panic_overflow"}
             /\ sleeps = <<>>
             /\ pc \in {"main_ret", "exit"} =>
                   (result = taskResult /\ result.err \in CycleErrors)
             /\ (pc = "hostname" /\ cycle >= 2) => start = starts[cycle - 1] + elapsed)
    /\ [][(args.interval = 0 /\ pc = "task_ret" /\ taskResult.ok)
            => (pc' = "loop" /\ now' = now)]_vars
    /\ (args.interval = 0 /\ pc = "task_ret" /\ taskResult.ok /\ cycle < MaxCycles)
          ~> (pc = "hostname")

\* C18 witness: with an interval of 0 the second cycle runs straight after a
\* first one that took some time, and nothing has slept
C18_Witness ==
    /\ args.interval = 0
    /\ pc = "hostname"
    /\ cycle = 2
    /\ elapsed > 0
    /\ starts[2] = starts[1] + elapsed
    /\ sleeps = <<>>

====
